---- MODULE Spec2Model ----
(***************************************************************************)
(* Space Observation Journal service worker (src/sw.js).                   *)
(*                                                                         *)
(* The worker is a set of event handlers over the host's CacheStorage      *)
(* (`caches`), the network (`fetch`) and the takeover controls             *)
(* (skipWaiting, clients.claim).  Every `await` / promise callback is a    *)
(* suspension point, so an async handler is a small process whose          *)
(* position is part of the state; the host's answers (network outcome,     *)
(* store operation success or failure) are nondeterministic inputs.        *)
(***************************************************************************)
EXTENDS Naturals, Sequences, FiniteSets

(* ------------------------------------------------------------------ *)
(* Configuration of the worker                                          *)
(* ------------------------------------------------------------------ *)

CACHE_NAME == "space-observation-journal-v1"

PRECACHE_ASSETS ==
    << "/", "/index.html", "/manifest.json", "/icon-192.png", "/icon-512.png" >>

(* ------------------------------------------------------------------ *)
(* Bounds of the model                                                  *)
(* ------------------------------------------------------------------ *)

\* number of request handlers that may be in flight at the same time
MaxInflight == 1

\* number of install events delivered to the worker
MaxInstalls == 2

\* number of takeover signals (skipWaiting calls) that are counted
MaxSkipWaiting == 2

\* number of fetch events delivered to the worker
MaxFetchEvents == 2

\* number of request handlers in flight at the same time when the writes
\* of concurrent requests are examined
MaxWriters == 2

(* ------------------------------------------------------------------ *)
(* Values: URLs, requests, responses                                    *)
(* ------------------------------------------------------------------ *)

\* `undefined`: the value of a lookup that found nothing
NoResponse == [status |-> 0, body |-> "<undefined>"]

\* a request without an accept header (headers.get returns null, and
\* `?.` makes the test false, as it is for the empty string)
NoHeader == << >>

\* Header values are kept as their characters because offlineFallback
\* tests the accept header with String.includes.
TEXT_HTML == << "t", "e", "x", "t", "/", "h", "t", "m", "l" >>

\* accept headers of the requests the host delivers:
\* "image/png", "text/html", "*/*, text/html;q=0.9", "application/json"
AcceptImage == << "i", "m", "a", "g", "e", "/", "p", "n", "g" >>
AcceptHtml == TEXT_HTML
AcceptAnyOrHtml ==
    << "*", "/", "*", ",", " " >> \o TEXT_HTML \o << ";", "q", "=", "0", ".", "9" >>
AcceptJson ==
    << "a", "p", "p", "l", "i", "c", "a", "t", "i", "o", "n", "/", "j", "s", "o", "n" >>

\* A URL as `new URL(...)` parses it.  The protocol is kept as its
\* characters because the router tests it with String.startsWith.
HTTP_PREFIX == << "h", "t", "t", "p" >>
ProtoHttp == << "h", "t", "t", "p", ":" >>
ProtoHttps == << "h", "t", "t", "p", "s", ":" >>
ProtoExt == << "c", "h", "r", "o", "m", "e", "-", "e", "x", "t", ":" >>
ProtoHttpx == << "h", "t", "t", "p", "x", ":" >>

Url(proto, host, path) == [protocol |-> proto, hostname |-> host, pathname |-> path]

\* String.prototype.startsWith
StartsWith(s, prefix) ==
    /\ Len(s) >= Len(prefix)
    /\ SubSeq(s, 1, Len(prefix)) = prefix

\* String.prototype.includes: the search string occurs somewhere in the
\* string, at any position
Includes(string, searchString) ==
    \E i \in 1..(Len(string) + 1) :
        /\ i + Len(searchString) - 1 <= Len(string)
        /\ SubSeq(string, i, i + Len(searchString) - 1) = searchString

OriginHost == "journal.app"

Request(m, u, d, a) == [method |-> m, url |-> u, destination |-> d, accept |-> a]

\* The key a Cache stores a request under: its method and URL.
KeyOf(request) == [method |-> request.method, url |-> request.url]

\* cache.addAll(urls) builds `new Request(url)`: a GET of the URL resolved
\* against the worker's origin.
PrecacheKey(path) == [method |-> "GET", url |-> Url(ProtoHttps, OriginHost, path)]

Response(s, b) == [status |-> s, body |-> b]

OFFLINE_HTML == "<!DOCTYPE html>...You're Offline..."

\* what the network may answer to a request of live traffic: a response
\* (only its status and body matter here) or a thrown network error
Resolves(response) == [throws |-> FALSE, response |-> response]
NetworkError == [throws |-> TRUE, response |-> NoResponse]
NetResponses ==
    { Response(200, "body-1"), Response(200, "body-2"),
      Response(204, ""), Response(404, "not found") }
NetOutcomes == { Resolves(r) : r \in NetResponses } \cup { NetworkError }

\* what the network may answer to the precache URLs during install: every
\* URL is served, or one of them is not found or unreachable
PrecacheFailures == { Resolves(Response(404, "not found")), NetworkError }
AllServed == [i \in 1..Len(PRECACHE_ASSETS) |-> Resolves(Response(200, "shell"))]
PrecacheOutcomes ==
    { AllServed } \cup
    { [AllServed EXCEPT ![i] = failure] :
        i \in 1..Len(PRECACHE_ASSETS), failure \in PrecacheFailures }

\* the fetch events the host may deliver
AppUrl(path) == Url(ProtoHttps, OriginHost, path)
FetchRequests ==
    { Request("GET", AppUrl("/a.png"), "image", AcceptImage),
      Request("GET", AppUrl("/index.html"), "document", AcceptHtml),
      Request("GET", AppUrl("/index.html"), "", AcceptAnyOrHtml),
      Request("GET", Url(ProtoHttps, "fonts.gstatic.com", "/f.woff2"), "font", NoHeader),
      Request("GET", Url(ProtoHttps, "fonts.googleapis.com", "/css"), "", AcceptHtml),
      Request("POST", AppUrl("/a.png"), "", AcceptJson),
      Request("POST", Url(ProtoHttps, "fonts.gstatic.com", "/f.woff2"), "", NoHeader),
      Request("GET", Url(ProtoExt, "extension-id", "/a.png"), "image", NoHeader),
      Request("GET", Url(ProtoHttpx, "media.local", "/a.png"), "image", NoHeader) }

\* the data of the message events the host may deliver
NullData == [isNull |-> TRUE, type |-> "<undefined>"]
Data(type) == [isNull |-> FALSE, type |-> type]
MessageData == { NullData, Data("SKIP_WAITING"), Data("PING"), Data("<undefined>") }

(* ------------------------------------------------------------------ *)
(* The host's CacheStorage: named caches in creation order              *)
(* ------------------------------------------------------------------ *)

EmptyEntries == [k \in {} |-> NoResponse]

\* caches.keys()
CacheNames(cs) == { cs[i].name : i \in 1..Len(cs) }

\* caches.has(name)
HasCache(cs, name) == name \in CacheNames(cs)

EntriesOf(cs, name) == cs[CHOOSE i \in 1..Len(cs) : cs[i].name = name].entries

\* caches.open(name): the cache of that name, created last when absent
Open(cs, name) ==
    IF HasCache(cs, name) THEN cs
    ELSE Append(cs, [name |-> name, entries |-> EmptyEntries])

\* caches.delete(name)
Delete(cs, name) == SelectSeq(cs, LAMBDA c : c.name # name)

PutEntry(entries, key, response) ==
    [k \in DOMAIN entries \cup {key} |-> IF k = key THEN response ELSE entries[k]]

\* a store whose put keeps the entry a key already has (first writer wins)
PutIfAbsent(cs, name, key, response) ==
    [i \in 1..Len(cs) |->
        IF cs[i].name = name /\ key \notin DOMAIN cs[i].entries
        THEN [cs[i] EXCEPT !.entries = PutEntry(cs[i].entries, key, response)]
        ELSE cs[i]]

\* cache.put(request, response) on the cache called `name`: the entry of
\* the key is replaced whole
Put(cs, name, key, response) ==
    [i \in 1..Len(cs) |->
        IF cs[i].name = name
        THEN [cs[i] EXCEPT !.entries = PutEntry(cs[i].entries, key, response)]
        ELSE cs[i]]

\* caches.match(request): the entry of the first cache, in creation
\* order, that holds the request's key; undefined when no cache does
Match(cs, request) ==
    LET key == KeyOf(request)
        hits == { i \in 1..Len(cs) : key \in DOMAIN cs[i].entries }
    IN  IF request.method # "GET" \/ hits = {} THEN NoResponse
        ELSE cs[CHOOSE i \in hits : \A j \in hits : i <= j].entries[key]

\* the keys cache.addAll(PRECACHE_ASSETS) stores
ManifestKeys == { PrecacheKey(PRECACHE_ASSETS[i]) : i \in 1..Len(PRECACHE_ASSETS) }

\* Response.ok, the test cache.addAll applies to each fetched response
IsOk(response) == response.status >= 200 /\ response.status <= 299

\* cache.addAll(PRECACHE_ASSETS) succeeds when every URL was fetched
\* with an ok status ...
AddAllSucceeds(outcomes) ==
    \A i \in 1..Len(PRECACHE_ASSETS) :
        ~ outcomes[i].throws /\ IsOk(outcomes[i].response)

RECURSIVE PutAll(_, _, _, _)
PutAll(cs, name, outcomes, i) ==
    IF i > Len(PRECACHE_ASSETS) THEN cs
    ELSE PutAll(Put(cs, name, PrecacheKey(PRECACHE_ASSETS[i]), outcomes[i].response),
                name, outcomes, i + 1)

\* a precache that stores the first URL of the manifest only
AddFirstOnly(cs, name, outcomes) ==
    IF AddAllSucceeds(outcomes)
    THEN Put(cs, name, PrecacheKey(PRECACHE_ASSETS[1]), outcomes[1].response)
    ELSE cs

\* ... and then stores all of them; otherwise it stores none
AddAll(cs, name, outcomes) ==
    IF AddAllSucceeds(outcomes) THEN PutAll(cs, name, outcomes, 1) ELSE cs

(* ------------------------------------------------------------------ *)
(* Pure parts of the handlers                                           *)
(* ------------------------------------------------------------------ *)

\* a sweep whose filter is inverted
StaleNamesInverted(names) == { name \in names : name = CACHE_NAME }

\* activate: the names the sweep deletes
StaleNames(names) == { name \in names : name # CACHE_NAME }

\* a router without the method check
RouteAnyMethod(request) ==
    IF ~ StartsWith(request.url.protocol, HTTP_PREFIX) THEN "bypass"
    ELSE IF request.url.hostname = "fonts.googleapis.com"
            \/ request.url.hostname = "fonts.gstatic.com"
         THEN "networkFirst"
    ELSE "cacheFirst"

\* a router that tests the hostname before the method and the scheme
RouteHostFirst(request) ==
    IF request.url.hostname = "fonts.googleapis.com"
       \/ request.url.hostname = "fonts.gstatic.com"
    THEN "networkFirst"
    ELSE IF request.method # "GET" THEN "bypass"
    ELSE IF ~ StartsWith(request.url.protocol, HTTP_PREFIX) THEN "bypass"
    ELSE "cacheFirst"

\* fetch listener: which strategy answers the request, if any
Route(request) ==
    IF request.method # "GET" THEN "bypass"
    ELSE IF ~ StartsWith(request.url.protocol, HTTP_PREFIX) THEN "bypass"
    ELSE IF request.url.hostname = "fonts.googleapis.com"
            \/ request.url.hostname = "fonts.gstatic.com"
         THEN "networkFirst"
    ELSE "cacheFirst"

\* a cacheability test that accepts every ok status (response.ok)
ShouldCacheAnyOk(networkResponse) == IsOk(networkResponse)

\* the strategies cache a network response only when its status is 200
ShouldCache(networkResponse) == networkResponse.status = 200

offlineFallback(request) ==
    IF request.destination = "document" \/ Includes(request.accept, TEXT_HTML)
    THEN Response(200, OFFLINE_HTML)
    ELSE Response(503, "Offline")

\* a listener that takes any message with data for the takeover signal
IsSkipWaitingAnyType(data) == ~ data.isNull

\* message listener: whether the data asks for the takeover
IsSkipWaiting(data) == ~ data.isNull /\ data.type = "SKIP_WAITING"

(* ------------------------------------------------------------------ *)
(* State                                                                *)
(* ------------------------------------------------------------------ *)

VARIABLES
    caches,           \* the CacheStorage: << [name, entries] >> in creation order
    installPc,        \* position of the install handler's promise chain
    installRuns,      \* install events delivered so far
    installOk,        \* install runs whose precache stored the whole manifest
    precached,        \* "none" | "stored" | "failed": cache.addAll of the last run
                      \* ("none" until it settles)
    installSettled,   \* "none" | "fulfilled" | "rejected": promise given to waitUntil
    activatePc,       \* position of the activate handler's promise chain
    deleting,         \* names whose caches.delete has not settled yet
    activateSettled,  \* "none" | "fulfilled" | "rejected": promise given to waitUntil
    claimed,          \* clients.claim() has been called
    skipWaitingCalls, \* calls of self.skipWaiting()
    slots,            \* the requests handed to respondWith that are in flight
    bypassed,         \* the last request the fetch listener declined to answer
    fetchEvents,      \* fetch events delivered so far
    pristine          \* the store started empty and no strategy has written to it

installVars == << installPc, installRuns, installOk, precached, installSettled >>

activateVars == << activatePc, deleting, activateSettled, claimed >>

trafficVars == << slots, bypassed, fetchEvents >>

vars ==
    << caches, installPc, installRuns, installOk, precached, installSettled,
       activatePc, deleting, activateSettled, claimed, skipWaitingCalls,
       slots, bypassed, fetchEvents, pristine >>

\* the request handlers the host lets run at the same time
Slots == DOMAIN slots

NoRequest == Request("<none>", Url(<< >>, "", ""), "", NoHeader)

IdleSlot ==
    [pc |-> "idle", request |-> NoRequest, network |-> NoResponse,
     result |-> NoResponse, source |-> "none", fetched |-> FALSE,
     error |-> "none", put |-> "none"]

\* pc       where the strategy is suspended, or "returned" / "rejected"
\* request  the request of the fetch event
\* network  networkResponse, once fetch has resolved
\* result   the response the strategy returned
\* source   where the result came from: "cache", "network" or "fallback"
\* fetched  the strategy has called fetch
\* error    what the strategy caught: "match", "fetch" or "open"
\* put      the cache.put it started: "pending", "stored" or "failed"

\* generations the host may hold when the worker starts: caches of an
\* earlier version and of the page, each created before or after the
\* current one
OldTag == "space-observation-journal-v0"
PageTag == "page-cache"

ImageKey == [method |-> "GET", url |-> AppUrl("/a.png")]
FontKey == [method |-> "GET", url |-> Url(ProtoHttps, "fonts.gstatic.com", "/f.woff2")]

StaleEntries == [k \in { ImageKey, FontKey } |-> Response(200, "body-0")]

Cache(name, entries) == [name |-> name, entries |-> entries]

InitialCaches ==
    { << >>,
      << Cache(OldTag, StaleEntries) >>,
      << Cache(OldTag, StaleEntries), Cache(CACHE_NAME, EmptyEntries) >>,
      << Cache(CACHE_NAME, EmptyEntries), Cache(PageTag, StaleEntries) >>,
      << Cache(OldTag, StaleEntries), Cache(CACHE_NAME, StaleEntries),
         Cache(PageTag, EmptyEntries) >> }

\* a worker that has just been registered: nothing has run yet
Init ==
    /\ caches \in InitialCaches
    /\ installPc = "idle"
    /\ installRuns = 0
    /\ installOk = 0
    /\ precached = "none"
    /\ installSettled = "none"
    /\ activatePc = "idle"
    /\ deleting = {}
    /\ activateSettled = "none"
    /\ claimed = FALSE
    /\ skipWaitingCalls = 0
    /\ slots = [s \in 1..MaxInflight |-> IdleSlot]
    /\ bypassed = NoRequest
    /\ fetchEvents = 0
    /\ pristine = (caches = << >>)

(* ------------------------------------------------------------------ *)
(* install listener                                                     *)
(* ------------------------------------------------------------------ *)

\* the install event fires: caches.open(CACHE_NAME) is called and the
\* chain is handed to event.waitUntil
InstallEvent ==
    /\ installPc = "idle"
    /\ installRuns < MaxInstalls
    /\ skipWaitingCalls < MaxSkipWaiting
    /\ installPc' = "open"
    /\ installRuns' = installRuns + 1
    /\ precached' = "none"
    /\ installSettled' = "none"
    /\ UNCHANGED << caches, installOk, activateVars, skipWaitingCalls, trafficVars,
                    pristine >>

\* what the chain's .catch does with a rejection: it logs it and returns,
\* so the promise given to waitUntil is fulfilled
InstallCatch == "fulfilled"

\* caches.open settles; on success cache.addAll(PRECACHE_ASSETS) starts
InstallOpen(ok) ==
    /\ installPc = "open"
    /\ IF ok
       THEN /\ caches' = Open(caches, CACHE_NAME)
            /\ installPc' = "addAll"
            /\ UNCHANGED << precached, installSettled >>
       ELSE /\ installPc' = "idle"
            /\ installSettled' = InstallCatch
            /\ UNCHANGED << caches, precached >>
    /\ UNCHANGED << installRuns, installOk, activateVars, skipWaitingCalls,
                    trafficVars, pristine >>

\* an install chain that calls skipWaiting() whether or not cache.addAll
\* succeeded (the call placed in a .finally)
InstallAddAllThenAlwaysSkips(outcomes) ==
    /\ installPc = "addAll"
    /\ caches' = AddAll(caches, CACHE_NAME, outcomes)
    /\ installPc' = "skipWaiting"
    /\ precached' = IF AddAllSucceeds(outcomes) THEN "stored" ELSE "failed"
    /\ installOk' = IF AddAllSucceeds(outcomes) THEN installOk + 1 ELSE installOk
    /\ skipWaitingCalls' = skipWaitingCalls + 1
    /\ UNCHANGED << installRuns, installSettled, activateVars, trafficVars, pristine >>

\* cache.addAll settles; on success the next callback calls skipWaiting()
InstallAddAll(outcomes) ==
    /\ installPc = "addAll"
    /\ caches' = AddAll(caches, CACHE_NAME, outcomes)
    /\ IF AddAllSucceeds(outcomes)
       THEN /\ installPc' = "skipWaiting"
            /\ precached' = "stored"
            /\ installOk' = installOk + 1
            /\ skipWaitingCalls' = skipWaitingCalls + 1
            /\ UNCHANGED installSettled
       ELSE /\ installPc' = "idle"
            /\ precached' = "failed"
            /\ installSettled' = InstallCatch
            /\ UNCHANGED << installOk, skipWaitingCalls >>
    /\ UNCHANGED << installRuns, activateVars, trafficVars, pristine >>

\* the promise of skipWaiting() is fulfilled, and with it the chain
InstallSkipWaiting ==
    /\ installPc = "skipWaiting"
    /\ installPc' = "idle"
    /\ installSettled' = "fulfilled"
    /\ UNCHANGED << caches, installRuns, installOk, precached, activateVars,
                    skipWaitingCalls, trafficVars, pristine >>

(* ------------------------------------------------------------------ *)
(* activate listener                                                    *)
(* ------------------------------------------------------------------ *)

\* the activate event fires (once for a worker): caches.keys() is called
ActivateEvent ==
    /\ activatePc = "idle"
    /\ activateSettled = "none"
    /\ activatePc' = "keys"
    /\ UNCHANGED << caches, installVars, deleting, activateSettled, claimed,
                    skipWaitingCalls, trafficVars, pristine >>

\* caches.keys() settles: a caches.delete is started for every other
\* name, and Promise.all of none of them is fulfilled at once
ActivateKeys(ok) ==
    /\ activatePc = "keys"
    /\ IF ~ ok
       THEN /\ activatePc' = "idle"
            /\ activateSettled' = "rejected"
            /\ UNCHANGED << deleting, claimed >>
       ELSE LET stale == StaleNames(CacheNames(caches))
            IN  /\ deleting' = stale
                /\ activatePc' = IF stale = {} THEN "claim" ELSE "deleting"
                /\ claimed' = (stale = {})
                /\ UNCHANGED activateSettled
    /\ UNCHANGED << caches, installVars, skipWaitingCalls, trafficVars, pristine >>

\* a sweep that waits for every deletion to settle and claims the clients
\* whether or not they succeeded (Promise.allSettled)
ActivateDeleteAllSettled(name, ok) ==
    /\ activatePc = "deleting"
    /\ name \in deleting
    /\ deleting' = deleting \ {name}
    /\ caches' = IF ok THEN Delete(caches, name) ELSE caches
    /\ activatePc' = IF deleting' # {} THEN "deleting" ELSE "claim"
    /\ claimed' = (deleting' = {})
    /\ UNCHANGED << installVars, activateSettled, skipWaitingCalls, trafficVars,
                    pristine >>

\* one caches.delete settles.  Promise.all rejects with the first
\* deletion that fails (the others go on); when all have succeeded the
\* next callback calls clients.claim()
ActivateDelete(name, ok) ==
    /\ activatePc = "deleting"
    /\ name \in deleting
    /\ deleting' = deleting \ {name}
    /\ caches' = IF ok THEN Delete(caches, name) ELSE caches
    /\ LET failed == ~ ok \/ activateSettled = "rejected"
       IN  /\ activateSettled' = IF failed THEN "rejected" ELSE activateSettled
           /\ activatePc' = IF deleting' # {} THEN "deleting"
                            ELSE IF failed THEN "idle" ELSE "claim"
           /\ claimed' = (deleting' = {} /\ ~ failed)
    /\ UNCHANGED << installVars, skipWaitingCalls, trafficVars, pristine >>

\* the promise of clients.claim() settles, and with it the chain
ActivateClaim(ok) ==
    /\ activatePc = "claim"
    /\ activatePc' = "idle"
    /\ activateSettled' = IF ok THEN "fulfilled" ELSE "rejected"
    /\ UNCHANGED << caches, installVars, deleting, claimed, skipWaitingCalls,
                    trafficVars, pristine >>

(* ------------------------------------------------------------------ *)
(* fetch listener and the two strategies                                *)
(* ------------------------------------------------------------------ *)

Returned(slot, response, source) ==
    [slot EXCEPT !.pc = "returned", !.result = response, !.source = source]

\* the catch block of cacheFirstStrategy: the error is logged and the
\* fallback is returned
Caught(slot, error) ==
    [Returned(slot, offlineFallback(slot.request), "fallback")
        EXCEPT !.error = error, !.network = NoResponse]

\* respondWith(strategy(request)): the strategy runs up to its first
\* await, caches.match for cache-first and fetch for network-first
Dispatch(request) ==
    IF Route(request) = "networkFirst"
    THEN [IdleSlot EXCEPT !.pc = "nf_fetch", !.request = request, !.fetched = TRUE]
    ELSE [IdleSlot EXCEPT !.pc = "cf_match", !.request = request]

\* the fetch event fires.  A request that is not routed is left to the
\* host (no respondWith); an answered one takes the first free slot
FetchEvent(request) ==
    /\ fetchEvents < MaxFetchEvents
    /\ fetchEvents' = fetchEvents + 1
    /\ IF Route(request) = "bypass"
       THEN /\ bypassed' = request
            /\ UNCHANGED slots
       ELSE /\ \E s \in Slots :
                 /\ slots[s].pc = "idle"
                 /\ \A t \in Slots : t < s => slots[t].pc # "idle"
                 /\ slots' = [slots EXCEPT ![s] = Dispatch(request)]
            /\ UNCHANGED bypassed
    /\ UNCHANGED << caches, installVars, activateVars, skipWaitingCalls, pristine >>

\* a cache-first strategy that goes to the network even on a hit
CacheFirstLookupRefetches(slot, cachedResponse, ok) ==
    IF ~ ok THEN Caught(slot, "match")
    ELSE [slot EXCEPT !.pc = "cf_fetch", !.fetched = TRUE]

\* cacheFirstStrategy after `await caches.match(request)`: a hit is
\* returned, a miss goes to the network, a rejection is caught
CacheFirstLookup(slot, cachedResponse, ok) ==
    IF ~ ok THEN Caught(slot, "match")
    ELSE IF cachedResponse # NoResponse THEN Returned(slot, cachedResponse, "cache")
    ELSE [slot EXCEPT !.pc = "cf_fetch", !.fetched = TRUE]

CacheFirstMatch(s, ok) ==
    /\ slots[s].pc = "cf_match"
    /\ slots' = [slots EXCEPT ![s] =
          CacheFirstLookup(slots[s], Match(caches, slots[s].request), ok)]
    /\ UNCHANGED << caches, installVars, activateVars, skipWaitingCalls, bypassed,
                    fetchEvents, pristine >>

\* cacheFirstStrategy after `await fetch(request)`: a response to cache
\* waits for caches.open, any other response is returned, a throw is caught
CacheFirstFetched(slot, outcome) ==
    IF outcome.throws THEN Caught(slot, "fetch")
    ELSE IF ShouldCache(outcome.response)
         THEN [slot EXCEPT !.pc = "cf_open", !.network = outcome.response]
    ELSE Returned([slot EXCEPT !.network = outcome.response],
                  outcome.response, "network")

CacheFirstFetch(s, outcome) ==
    /\ slots[s].pc = "cf_fetch"
    /\ slots' = [slots EXCEPT ![s] = CacheFirstFetched(slots[s], outcome)]
    /\ UNCHANGED << caches, installVars, activateVars, skipWaitingCalls, bypassed,
                    fetchEvents, pristine >>

\* after `await caches.open(CACHE_NAME)`: cache.put is started, not
\* awaited, and the network response is returned
PutAndReturn(slot) ==
    [Returned(slot, slot.network, "network") EXCEPT !.put = "pending"]

\* cacheFirstStrategy after `await caches.open`: a rejection is caught
CacheFirstOpened(slot, ok) ==
    IF ok THEN PutAndReturn(slot) ELSE Caught(slot, "open")

CacheFirstOpen(s, ok) ==
    /\ slots[s].pc = "cf_open"
    /\ caches' = IF ok THEN Open(caches, CACHE_NAME) ELSE caches
    /\ slots' = [slots EXCEPT ![s] = CacheFirstOpened(slots[s], ok)]
    /\ UNCHANGED << installVars, activateVars, skipWaitingCalls, bypassed,
                    fetchEvents, pristine >>

\* the catch block of networkFirstStrategy: caches.match is awaited
NetworkFailed(slot, error) ==
    [slot EXCEPT !.pc = "nf_match", !.error = error, !.network = NoResponse]

\* networkFirstStrategy after `await fetch(request)`
NetworkFirstFetched(slot, outcome) ==
    IF outcome.throws THEN NetworkFailed(slot, "fetch")
    ELSE IF ShouldCache(outcome.response)
         THEN [slot EXCEPT !.pc = "nf_open", !.network = outcome.response]
    ELSE Returned([slot EXCEPT !.network = outcome.response],
                  outcome.response, "network")

NetworkFirstFetch(s, outcome) ==
    /\ slots[s].pc = "nf_fetch"
    /\ slots' = [slots EXCEPT ![s] = NetworkFirstFetched(slots[s], outcome)]
    /\ UNCHANGED << caches, installVars, activateVars, skipWaitingCalls, bypassed,
                    fetchEvents, pristine >>

\* networkFirstStrategy after `await caches.open`: a rejection is caught
\* like a network failure
NetworkFirstOpened(slot, ok) ==
    IF ok THEN PutAndReturn(slot) ELSE NetworkFailed(slot, "open")

NetworkFirstOpen(s, ok) ==
    /\ slots[s].pc = "nf_open"
    /\ caches' = IF ok THEN Open(caches, CACHE_NAME) ELSE caches
    /\ slots' = [slots EXCEPT ![s] = NetworkFirstOpened(slots[s], ok)]
    /\ UNCHANGED << installVars, activateVars, skipWaitingCalls, bypassed,
                    fetchEvents, pristine >>

\* a network-first strategy that never looks at what the store answered
NetworkFirstLookupIgnoresCache(slot, cachedResponse, ok) ==
    IF ~ ok THEN [slot EXCEPT !.pc = "rejected", !.error = "match"]
    ELSE Returned(slot, offlineFallback(slot.request), "fallback")

\* networkFirstStrategy, in its catch block, after `await caches.match`:
\* a hit is returned, a miss gets the fallback; a rejection here is
\* caught by nothing, and the strategy's promise rejects
NetworkFirstLookup(slot, cachedResponse, ok) ==
    IF ~ ok THEN [slot EXCEPT !.pc = "rejected", !.error = "match"]
    ELSE IF cachedResponse # NoResponse THEN Returned(slot, cachedResponse, "cache")
    ELSE Returned(slot, offlineFallback(slot.request), "fallback")

NetworkFirstMatch(s, ok) ==
    /\ slots[s].pc = "nf_match"
    /\ slots' = [slots EXCEPT ![s] =
          NetworkFirstLookup(slots[s], Match(caches, slots[s].request), ok)]
    /\ UNCHANGED << caches, installVars, activateVars, skipWaitingCalls, bypassed,
                    fetchEvents, pristine >>

\* the cache.put a strategy started settles, after the strategy returned;
\* nothing awaits it, so its rejection is handled by nobody
PutSettles(s, ok) ==
    /\ slots[s].put = "pending"
    /\ IF ok
       THEN /\ caches' = Put(caches, CACHE_NAME, KeyOf(slots[s].request),
                             slots[s].network)
            /\ slots' = [slots EXCEPT ![s].put = "stored"]
            /\ pristine' = FALSE
       ELSE /\ slots' = [slots EXCEPT ![s].put = "failed"]
            /\ UNCHANGED << caches, pristine >>
    /\ UNCHANGED << installVars, activateVars, skipWaitingCalls, bypassed,
                    fetchEvents >>

\* the host has taken the response (or the rejection) and the put has
\* settled: nothing of the request is left
Finished(s) ==
    /\ slots[s].pc \in { "returned", "rejected" }
    /\ slots[s].put # "pending"
    /\ slots' = [slots EXCEPT ![s] = IdleSlot]
    /\ UNCHANGED << caches, installVars, activateVars, skipWaitingCalls, bypassed,
                    fetchEvents, pristine >>

(* ------------------------------------------------------------------ *)
(* message listener                                                     *)
(* ------------------------------------------------------------------ *)

Message(data) ==
    /\ IF IsSkipWaiting(data)
       THEN /\ skipWaitingCalls < MaxSkipWaiting
            /\ skipWaitingCalls' = skipWaitingCalls + 1
       ELSE UNCHANGED skipWaitingCalls
    /\ UNCHANGED << caches, installVars, activateVars, trafficVars, pristine >>

(* ------------------------------------------------------------------ *)
(* The worker under its host                                            *)
(* ------------------------------------------------------------------ *)

\* The host delivers install first, activate once the install step has
\* succeeded, and fetch events once the activate step has settled; a
\* failed activate step does not keep the worker from becoming active.
\* Messages may arrive at any time.
HostInstalling == activatePc = "idle" /\ activateSettled = "none"
HostActivating == installPc = "idle" /\ installSettled = "fulfilled"
HostActive == activateSettled # "none"

Install ==
    \/ HostInstalling /\ InstallEvent
    \/ \E ok \in BOOLEAN : InstallOpen(ok)
    \/ \E outcomes \in PrecacheOutcomes : InstallAddAll(outcomes)
    \/ InstallSkipWaiting

Activate ==
    \/ HostActivating /\ ActivateEvent
    \/ \E ok \in BOOLEAN : ActivateKeys(ok)
    \/ \E name \in deleting, ok \in BOOLEAN : ActivateDelete(name, ok)
    \/ \E ok \in BOOLEAN : ActivateClaim(ok)

\* the host delivers a fetch event
Deliver(requests) == \E request \in requests : HostActive /\ FetchEvent(request)

\* the steps of Progress that belong to the request in slot s: the
\* operation its strategy awaits settles, or the write it started does, or
\* the host is done with it
SlotStep(s) ==
    \/ \E ok \in BOOLEAN : CacheFirstMatch(s, ok)
    \/ \E outcome \in NetOutcomes : CacheFirstFetch(s, outcome)
    \/ \E ok \in BOOLEAN : CacheFirstOpen(s, ok)
    \/ \E outcome \in NetOutcomes : NetworkFirstFetch(s, outcome)
    \/ \E ok \in BOOLEAN : NetworkFirstOpen(s, ok)
    \/ \E ok \in BOOLEAN : NetworkFirstMatch(s, ok)
    \/ \E ok \in BOOLEAN : PutSettles(s, ok)
    \/ Finished(s)

\* a suspended strategy, or the write it started, goes on
Progress ==
    \/ \E s \in Slots, ok \in BOOLEAN : CacheFirstMatch(s, ok)
    \/ \E s \in Slots, outcome \in NetOutcomes : CacheFirstFetch(s, outcome)
    \/ \E s \in Slots, ok \in BOOLEAN : CacheFirstOpen(s, ok)
    \/ \E s \in Slots, outcome \in NetOutcomes : NetworkFirstFetch(s, outcome)
    \/ \E s \in Slots, ok \in BOOLEAN : NetworkFirstOpen(s, ok)
    \/ \E s \in Slots, ok \in BOOLEAN : NetworkFirstMatch(s, ok)
    \/ \E s \in Slots, ok \in BOOLEAN : PutSettles(s, ok)
    \/ \E s \in Slots : Finished(s)

Traffic == Deliver(FetchRequests) \/ Progress

Messages == \E data \in MessageData : Message(data)

Next == Install \/ Activate \/ Traffic \/ Messages

Spec == Init /\ [][Next]_vars

\* Every network fetch and every store operation a request has issued
\* settles in the end, by returning or by throwing: the host runs each
\* promise to its settlement.
OperationsSettle == \A s \in 1..MaxInflight : WF_vars(SlotStep(s))

SpecFair == Spec /\ OperationsSettle

\* The lifecycle alone: the worker from its registration to the end of
\* its activation, before any fetch event.
SpecLifecycle == Init /\ [][Install \/ Activate \/ Messages]_vars

\* what a successful precache leaves in the current generation
Precached == [k \in ManifestKeys |-> Response(200, "shell")]

\* Stores an active worker may find itself with, each left by a lifecycle
\* of Spec: the precached shell alone; the entries of an earlier run, the
\* precache having failed; a generation whose deletion failed, created
\* before or after the current one; and no generation at all.
ActiveWorkers ==
    { [caches |-> << Cache(CACHE_NAME, Precached) >>,
       installOk |-> 1, precached |-> "stored", activateSettled |-> "fulfilled"],
      [caches |-> << Cache(CACHE_NAME, StaleEntries) >>,
       installOk |-> 0, precached |-> "failed", activateSettled |-> "fulfilled"],
      [caches |-> << Cache(OldTag, StaleEntries), Cache(CACHE_NAME, Precached) >>,
       installOk |-> 1, precached |-> "stored", activateSettled |-> "rejected"],
      [caches |-> << Cache(CACHE_NAME, EmptyEntries), Cache(PageTag, StaleEntries) >>,
       installOk |-> 0, precached |-> "failed", activateSettled |-> "rejected"],
      [caches |-> << >>,
       installOk |-> 0, precached |-> "none", activateSettled |-> "fulfilled"] }

\* the worker once its activation has settled, with room for n requests
\* in flight
Activated(n) ==
    \E w \in ActiveWorkers :
        /\ caches = w.caches
        /\ installPc = "idle"
        /\ installRuns = 1
        /\ installOk = w.installOk
        /\ precached = w.precached
        /\ installSettled = "fulfilled"
        /\ activatePc = "idle"
        /\ deleting = {}
        /\ activateSettled = w.activateSettled
        /\ claimed = (w.activateSettled = "fulfilled")
        /\ skipWaitingCalls = w.installOk
        /\ slots = [s \in 1..n |-> IdleSlot]
        /\ bypassed = NoRequest
        /\ fetchEvents = 0
        /\ pristine = (w.caches = << Cache(CACHE_NAME, Precached) >>)

InitActive == Activated(MaxInflight)

\* The active worker: fetch and message events on a worker whose
\* lifecycle is over.
SpecActive == InitActive /\ [][Traffic \/ Messages]_vars

\* The fetch events alone, on the active worker.
SpecTraffic == InitActive /\ [][Traffic]_vars

\* Requests that write to the store, several of them in flight at the
\* same time: two keys, one of each strategy.
WriterRequests ==
    { Request("GET", AppUrl("/a.png"), "image", AcceptImage),
      Request("GET", Url(ProtoHttps, "fonts.gstatic.com", "/f.woff2"), "font", NoHeader) }

InitConcurrent == Activated(MaxWriters)

SpecConcurrent == InitConcurrent /\ [][Deliver(WriterRequests) \/ Progress]_vars

(* ------------------------------------------------------------------ *)
(* Properties                                                           *)
(* ------------------------------------------------------------------ *)

\* some generation of the store holds an entry for the key
Holds(cs, key) == \E i \in 1..Len(cs) : key \in DOMAIN cs[i].entries

\* the values the store holds for the key, over all its generations
StoredUnder(cs, key) ==
    { cs[i].entries[key] : i \in { j \in 1..Len(cs) : key \in DOMAIN cs[j].entries } }

\* the current generation holds exactly this response for the key
StoredInCurrent(cs, key, response) ==
    /\ HasCache(cs, CACHE_NAME)
    /\ key \in DOMAIN EntriesOf(cs, CACHE_NAME)
    /\ EntriesOf(cs, CACHE_NAME)[key] = response

\* the current generation, if there is one
CurrentGeneration(cs) == SelectSeq(cs, LAMBDA c : c.name = CACHE_NAME)

\* The media types an accept header lists: the header is cut at its
\* commas, and each piece is taken up to its parameters (";") and without
\* the spaces around it.
Pieces(header) ==
    LET cuts == {0, Len(header) + 1} \cup { i \in 1..Len(header) : header[i] = "," }
    IN  { SubSeq(header, a + 1, b - 1) :
            << a, b >> \in { c \in cuts \X cuts :
                              /\ c[1] < c[2]
                              /\ \A d \in cuts : ~ (c[1] < d /\ d < c[2]) } }

WithoutParameters(piece) ==
    LET semis == { i \in 1..Len(piece) : piece[i] = ";" }
    IN  IF semis = {} THEN piece
        ELSE SubSeq(piece, 1, (CHOOSE i \in semis : \A j \in semis : i <= j) - 1)

Trimmed(piece) ==
    LET inked == { i \in 1..Len(piece) : piece[i] # " " }
    IN  IF inked = {} THEN << >>
        ELSE SubSeq(piece, CHOOSE i \in inked : \A j \in inked : i <= j,
                           CHOOSE i \in inked : \A j \in inked : j <= i)

MediaTypes(header) == { Trimmed(WithoutParameters(piece)) : piece \in Pieces(header) }

\* the request asks for an HTML document: it is a navigation, or its
\* accept header lists text/html
WantsHtml(request) ==
    \/ request.destination = "document"
    \/ TEXT_HTML \in MediaTypes(request.accept)

\* slot s returns in this step
Returns(s) == slots[s].pc # "returned" /\ slots'[s].pc = "returned"

\* C1: whenever the precache of an install run has failed (some manifest
\* URL could not be fetched and stored), the promise given to the install
\* event is rejected, so the host never counts the worker as installed.
C1_FailedPrecacheFailsInstall ==
    (installPc = "idle" /\ precached = "failed") => installSettled = "rejected"

\* C2: when the activate handler has completed, no generation other than
\* CACHE_NAME exists, and no step of the activate handler adds, removes or
\* changes the current generation.
C2_GenerationSweep ==
    /\ [](activateSettled = "fulfilled" => CacheNames(caches) \subseteq { CACHE_NAME })
    /\ [][activateVars' # activateVars
            => CurrentGeneration(caches') = CurrentGeneration(caches)]_vars

\* the sweep has completed on a store that held three generations: only
\* the current one is left, with the entries it had
C2_Swept ==
    /\ activateSettled = "fulfilled"
    /\ precached = "failed"
    /\ caches = << Cache(CACHE_NAME, StaleEntries) >>

\* C3: from an empty store and with no write of live traffic, two
\* successful installs followed by activate leave exactly one generation,
\* the current one, whose keys are exactly the precache manifest URLs.
C3_IdempotentPrecache ==
    (pristine /\ installOk >= 2 /\ activateSettled = "fulfilled")
        => /\ Len(caches) = 1
           /\ caches[1].name = CACHE_NAME
           /\ DOMAIN caches[1].entries = ManifestKeys
           /\ Cardinality(DOMAIN caches[1].entries) = Len(PRECACHE_ASSETS)

C3_InstalledTwiceAndActivated ==
    /\ pristine
    /\ installRuns = 2
    /\ installOk = 2
    /\ activateSettled = "fulfilled"

\* C4: when the lookup of cacheFirstStrategy is answered while the store
\* holds an entry for the request key, the strategy returns a value the
\* store holds for that key (the entry itself when one generation holds
\* it), has issued no network fetch, starts no write and leaves the store
\* unchanged.
C4_CacheFirstHit ==
    [][\A s \in Slots :
         (/\ slots[s].pc = "cf_match"
          /\ slots'[s] # slots[s]
          /\ slots'[s].error # "match"
          /\ Holds(caches, KeyOf(slots[s].request)))
         => /\ slots'[s].pc = "returned"
            /\ slots'[s].source = "cache"
            /\ slots'[s].result \in StoredUnder(caches, KeyOf(slots[s].request))
            /\ ~ slots'[s].fetched
            /\ slots'[s].put = "none"
            /\ caches' = caches]_vars

C4_ServedFromCache ==
    \E s \in Slots :
        /\ slots[s].pc = "returned"
        /\ Route(slots[s].request) = "cacheFirst"
        /\ slots[s].source = "cache"
        /\ slots[s].result = Response(200, "body-0")
        /\ ~ slots[s].fetched

\* C5: when cacheFirstStrategy returns a status-200 network response, the
\* current generation already holds that response under the request key.
C5_StoredBeforeReturn ==
    [][\A s \in Slots :
         (/\ Returns(s)
          /\ Route(slots'[s].request) = "cacheFirst"
          /\ slots'[s].source = "network"
          /\ slots'[s].result.status = 200)
         => StoredInCurrent(caches', KeyOf(slots'[s].request), slots'[s].result)]_vars

\* C6: a network response whose status is not 200 is returned as it is,
\* starts no write and leaves the store unchanged; and every entry that a
\* step of live traffic adds or replaces has status 200.
C6_OnlyStatus200Cached ==
    /\ [][\A s \in Slots :
            (/\ Returns(s)
             /\ slots'[s].source = "network"
             /\ slots'[s].network.status # 200)
            => /\ slots'[s].result = slots'[s].network
               /\ slots'[s].put = "none"
               /\ caches' = caches]_vars
    /\ [][(caches' # caches /\ UNCHANGED << installVars, activateVars >>)
            => \A i \in 1..Len(caches') : \A k \in DOMAIN caches'[i].entries :
                 \/ caches'[i].entries[k].status = 200
                 \/ \E j \in 1..Len(caches) :
                       /\ caches[j].name = caches'[i].name
                       /\ k \in DOMAIN caches[j].entries
                       /\ caches[j].entries[k] = caches'[i].entries[k]]_vars

\* a 204 came back for a key the store already held: it was returned and
\* nothing was written
C6_NotCached ==
    \E s \in Slots :
        /\ slots[s].pc = "returned"
        /\ slots[s].source = "network"
        /\ slots[s].result.status = 204
        /\ slots[s].put = "none"
        /\ StoredUnder(caches, KeyOf(slots[s].request)) = { Response(200, "body-0") }

\* C7: when cacheFirstStrategy finds no entry and the network fetch
\* throws, it returns the offline HTML document with status 200 for a
\* document or HTML request, and a response with status 503 and an empty
\* body otherwise.
C7_CacheFirstFallback ==
    \A s \in Slots :
        (/\ slots[s].pc = "returned"
         /\ Route(slots[s].request) = "cacheFirst"
         /\ slots[s].error = "fetch")
        => slots[s].result =
              IF WantsHtml(slots[s].request)
              THEN Response(200, OFFLINE_HTML)
              ELSE Response(503, "")

\* C8: when networkFirstStrategy returns a status-200 network response for
\* a key the current generation (the only one of the store) held an entry
\* for, a lookup of that key right after the return yields the returned
\* response.
C8_FreshAfterReturn ==
    [][\A s \in Slots :
         (/\ Returns(s)
          /\ Route(slots'[s].request) = "networkFirst"
          /\ slots'[s].source = "network"
          /\ slots'[s].result.status = 200
          /\ CacheNames(caches) = { CACHE_NAME }
          /\ Holds(caches, KeyOf(slots'[s].request)))
         => Match(caches', slots'[s].request) = slots'[s].result]_vars

\* C9: when the network fetch has thrown and the lookup of
\* networkFirstStrategy is answered, the strategy returns a value the store
\* holds for the request key if there is one, and otherwise the offline
\* HTML document with status 200 for a document or HTML request and a
\* status 503 for any other; it starts no write and leaves the store
\* unchanged.
C9_NetworkFirstOffline ==
    [][\A s \in Slots :
         (/\ slots[s].pc = "nf_match"
          /\ slots[s].error = "fetch"
          /\ slots'[s].pc = "returned")
         => /\ IF Holds(caches, KeyOf(slots[s].request))
               THEN /\ slots'[s].source = "cache"
                    /\ slots'[s].result \in StoredUnder(caches, KeyOf(slots[s].request))
               ELSE /\ slots'[s].source = "fallback"
                    /\ IF WantsHtml(slots[s].request)
                       THEN slots'[s].result = Response(200, OFFLINE_HTML)
                       ELSE slots'[s].result.status = 503
            /\ slots'[s].put = "none"
            /\ caches' = caches]_vars

C9_StaleServedOffline ==
    \E s \in Slots :
        /\ slots[s].pc = "returned"
        /\ Route(slots[s].request) = "networkFirst"
        /\ slots[s].error = "fetch"
        /\ slots[s].source = "cache"
        /\ slots[s].result = Response(200, "body-0")

\* C10: no request whose method is not GET is ever handed to a strategy,
\* and every key of the store is a GET request.
C10_NonGetBypass ==
    /\ \A s \in Slots : slots[s].pc # "idle" => slots[s].request.method = "GET"
    /\ \A i \in 1..Len(caches) : \A k \in DOMAIN caches[i].entries : k.method = "GET"

\* a POST to a font host has been declined while the store has entries
C10_PostDeclined ==
    /\ bypassed.method = "POST"
    /\ bypassed.url.hostname = "fonts.gstatic.com"
    /\ \A s \in Slots : slots[s].pc = "idle"
    /\ \E i \in 1..Len(caches) : DOMAIN caches[i].entries # {}

\* the schemes http and https, as URL.protocol spells them
HttpSchemes == { ProtoHttp, ProtoHttps }

\* C11: no request whose URL scheme is neither http nor https is ever
\* handed to a strategy, and every key of the store has the scheme http or
\* https.
C11_SchemeBypass ==
    /\ \A s \in Slots :
          slots[s].pc # "idle" => slots[s].request.url.protocol \in HttpSchemes
    /\ \A i \in 1..Len(caches) : \A k \in DOMAIN caches[i].entries :
          k.url.protocol \in HttpSchemes

\* C12: the handling of a message whose data has type 'SKIP_WAITING' calls
\* skipWaiting exactly once; the handling of any other message (another
\* type, no type, null data) calls nothing; and no message changes the
\* store or any handler in progress.
C12_MessageHandling ==
    /\ [][\A data \in MessageData :
            Message(data)
            => /\ skipWaitingCalls' =
                     IF data = Data("SKIP_WAITING") THEN skipWaitingCalls + 1
                     ELSE skipWaitingCalls
               /\ caches' = caches
               /\ UNCHANGED << installVars, activateVars, trafficVars >>]_vars
    /\ [][UNCHANGED << installVars, activateVars, trafficVars >>
            => /\ caches' = caches
               /\ skipWaitingCalls' \in { skipWaitingCalls, skipWaitingCalls + 1 }]_vars

\* one takeover was signalled on demand, none by an install: the precache
\* of the only install run has failed
C12_TakeoverOnDemand ==
    /\ installRuns = 1
    /\ precached = "failed"
    /\ installOk = 0
    /\ skipWaitingCalls = 1

\* the designated font hosts
FontHosts == { "fonts.googleapis.com", "fonts.gstatic.com" }

\* the positions of each strategy
CacheFirstPcs == { "cf_match", "cf_fetch", "cf_open" }
NetworkFirstPcs == { "nf_fetch", "nf_open", "nf_match" }

\* C13: a fetch event either declines its request, which then is not a GET
\* or not of an http(s) scheme, or hands it to exactly one strategy: the
\* request is a GET and starts networkFirstStrategy if its hostname is a
\* font host and cacheFirstStrategy if it is not; a request stays with the
\* strategy it was given to.  In particular a non-GET request to a font
\* host is never dispatched.
C13_RoutingRule ==
    /\ [][fetchEvents' # fetchEvents
            => \/ /\ slots' = slots
                  /\ \/ bypassed'.method # "GET"
                     \/ bypassed'.url.protocol \notin HttpSchemes
               \/ /\ bypassed' = bypassed
                  /\ \E s \in Slots :
                        /\ slots[s].pc = "idle"
                        /\ \A t \in Slots \ {s} : slots'[t] = slots[t]
                        /\ slots'[s].request.method = "GET"
                        /\ slots'[s].pc =
                              IF slots'[s].request.url.hostname \in FontHosts
                              THEN "nf_fetch" ELSE "cf_match"]_vars
    /\ [][\A s \in Slots :
            /\ slots[s].pc \in CacheFirstPcs => slots'[s].pc \notin NetworkFirstPcs
            /\ slots[s].pc \in NetworkFirstPcs => slots'[s].pc \notin CacheFirstPcs]_vars

\* a POST to a font host was declined and a GET to a font host is with
\* the network-first strategy
C13_FontHostRouted ==
    /\ bypassed.method = "POST"
    /\ bypassed.url.hostname \in FontHosts
    /\ \E s \in Slots :
          /\ slots[s].pc = "nf_fetch"
          /\ slots[s].request.method = "GET"
          /\ slots[s].request.url.hostname = "fonts.googleapis.com"

\* C14: whatever fails (the network, caches.match, caches.open, cache.put),
\* the promise of a strategy is never rejected, the response it resolves
\* to is a response object, and no write a strategy started is rejected
\* with nobody handling it.
C14_FailureContainment ==
    \A s \in Slots :
        /\ slots[s].pc # "rejected"
        /\ slots[s].pc = "returned" => slots[s].result # NoResponse
        /\ slots[s].put # "failed"

\* C15: clients are claimed only when every deletion has settled and no
\* generation other than the current one is left; the activate step is
\* fulfilled only when all deletions and the claim are done; and when a
\* deletion fails the step is rejected and that activation never claims
\* the clients.
C15_ActivationOrdering ==
    /\ [](claimed => deleting = {} /\ CacheNames(caches) \subseteq { CACHE_NAME })
    /\ [](activateSettled = "fulfilled"
            => claimed /\ deleting = {} /\ activatePc = "idle")
    /\ [][(deleting' # deleting /\ deleting' \subseteq deleting /\ caches' = caches)
            => activateSettled' = "rejected" /\ ~ claimed']_vars
    /\ [][(activateSettled = "rejected" /\ ~ claimed) => ~ claimed']_vars

\* of three generations the page's was deleted and the deletion of the
\* old one failed: the step is rejected and nothing was claimed
C15_DeletionFailed ==
    /\ activatePc = "idle"
    /\ activateSettled = "rejected"
    /\ ~ claimed
    /\ precached = "failed"
    /\ caches = << Cache(OldTag, StaleEntries), Cache(CACHE_NAME, StaleEntries) >>

\* the current generation holds every URL of the precache manifest
ManifestStored(cs) ==
    /\ HasCache(cs, CACHE_NAME)
    /\ ManifestKeys \subseteq DOMAIN EntriesOf(cs, CACHE_NAME)

\* C16: a step of the install handler calls skipWaiting exactly when it is
\* the step in which cache.addAll succeeds, and after that step the whole
\* manifest is in the current generation; the step in which the precache
\* fails calls nothing; and the handler waits on skipWaiting only with
\* the manifest stored.
C16_InstallTakeover ==
    /\ [][installVars' # installVars
            => /\ skipWaitingCalls' \in { skipWaitingCalls, skipWaitingCalls + 1 }
               /\ (skipWaitingCalls' = skipWaitingCalls + 1)
                     <=> (installPc = "addAll" /\ precached' = "stored")]_vars
    /\ [][(installPc = "addAll" /\ precached' = "stored")
            => ManifestStored(caches')]_vars
    /\ [][(installPc = "addAll" /\ precached' = "failed")
            => skipWaitingCalls' = skipWaitingCalls /\ caches' = caches]_vars
    /\ [](installPc = "skipWaiting" => precached = "stored" /\ ManifestStored(caches))

\* the first install run stored the manifest and signalled the takeover,
\* the second failed its precache and signalled nothing
C16_SecondRunFailed ==
    /\ installPc = "idle"
    /\ installRuns = 2
    /\ installOk = 1
    /\ precached = "failed"
    /\ skipWaitingCalls = 1

\* the entry a generation holds for a key, NoResponse when it holds none
EntryOf(cs, name, key) ==
    IF HasCache(cs, name) /\ key \in DOMAIN EntriesOf(cs, name)
    THEN EntriesOf(cs, name)[key]
    ELSE NoResponse

\* the write that slot s started completes in this step
WriteCompletes(s) == slots[s].put = "pending" /\ slots'[s].put = "stored"

\* C17: with several requests in flight, a write that completes leaves
\* under its key, in the current generation, exactly the response its
\* request fetched, whatever was there and whichever writes are still
\* pending; an entry changes only in the step in which a write to its key
\* completes, and then to that write's whole response; no entry ever
\* disappears.  So an entry is always one fetched response, and after the
\* last write to a key has completed it is that write's response.
C17_LastWriterWins ==
    /\ [][\A s \in Slots :
            WriteCompletes(s)
            => /\ slots[s].network \in NetResponses
               /\ StoredInCurrent(caches', KeyOf(slots[s].request), slots[s].network)]_vars
    /\ [][\A i \in 1..Len(caches') : \A k \in DOMAIN caches'[i].entries :
            caches'[i].entries[k] # EntryOf(caches, caches'[i].name, k)
            => /\ caches'[i].name = CACHE_NAME
               /\ \E s \in Slots :
                     /\ WriteCompletes(s)
                     /\ KeyOf(slots[s].request) = k
                     /\ caches'[i].entries[k] = slots[s].network]_vars
    /\ [][\A i \in 1..Len(caches) : \A k \in DOMAIN caches[i].entries :
            EntryOf(caches', caches[i].name, k) # NoResponse]_vars

\* two requests for the same key fetched different responses and both
\* writes have completed, the first request's after the second's: the
\* entry is the first request's response
C17_TwoWritersOneKey ==
    /\ Cardinality(Slots) >= 2
    /\ slots[1].put = "stored"
    /\ slots[2].put = "stored"
    /\ KeyOf(slots[1].request) = KeyOf(slots[2].request)
    /\ slots[1].network = Response(200, "body-1")
    /\ slots[2].network = Response(200, "body-2")
    /\ StoredInCurrent(caches, KeyOf(slots[1].request), Response(200, "body-1"))

\* C18: once the activate step has completed, the generations of the
\* store are exactly the current one, whatever fetch and message events
\* follow; and a step of fetch handling deletes no generation and creates
\* none but the current one.
C18_SingleGeneration ==
    /\ [](activateSettled = "fulfilled" => CacheNames(caches) = { CACHE_NAME })
    /\ [][trafficVars' # trafficVars
            => /\ CacheNames(caches) \subseteq CacheNames(caches')
               /\ CacheNames(caches') \ CacheNames(caches) \subseteq { CACHE_NAME }]_vars

\* C19: when a strategy of a worker whose precache succeeded returns a
\* response it read from the store, that response is the entry the
\* current generation holds for the request key.
C19_ReadsConfined ==
    [][\A s \in Slots :
         (/\ Returns(s)
          /\ slots'[s].source = "cache"
          /\ precached = "stored")
         => StoredInCurrent(caches, KeyOf(slots'[s].request), slots'[s].result)]_vars

\* the strategy in slot s has been started and has not settled
InFlight(s) == slots[s].pc \in CacheFirstPcs \cup NetworkFirstPcs

\* C20: when every operation a request issues settles, every request
\* handed to a strategy (of a worker whose precache succeeded) is answered
\* with a response in the end: its strategy settles in no other way than
\* by returning a response, it does return one, and an answered request
\* is not answered again.
C20_EventualResponse ==
    /\ [][\A s \in Slots :
            (InFlight(s) /\ precached = "stored")
            => (InFlight(s)' \/ slots'[s].pc = "returned")]_vars
    /\ \A s \in 1..MaxInflight :
          (InFlight(s) /\ precached = "stored") ~> (slots[s].pc = "returned")
    /\ [][\A s \in Slots :
            slots[s].pc = "returned" => slots'[s].pc \in { "returned", "idle" }]_vars

====
